---- MODULE Spec2Model ----
(***************************************************************************)
(* Model of src/src/App.tsx: the TRUST airdrop claim-stats dashboard.      *)
(*                                                                         *)
(* State: the four balance cells and the price cell (LoadState), the       *)
(* refreshing flag, the fetchAll invocations in flight with the network    *)
(* reads they issued, and the derived snapshot of the latest render.       *)
(*                                                                         *)
(* Amounts are bigint in the source (18 decimals).  The model counts them  *)
(* in units of 1000 TRUST, so that every sum and product of the derivation *)
(* stays inside TLC's integers; the derivation only compares, adds,        *)
(* subtracts and divides amounts, which is independent of the unit.        *)
(***************************************************************************)
EXTENDS Integers, Sequences, FiniteSets, TLC

VARIABLES
    config,     \* the two build-time amounts (ALLOCATED_AIRDROP, CLAIMABLE_FIRST_3)
    bal,        \* the balance cells: hubBal, bondedBal, vaultBal, lockerBal
    priceUSD,   \* the price cell
    refreshing, \* the refreshing flag
    mounted,    \* whether the mount effect has run
    inv,        \* the fetchAll invocations, by slot
    settled,    \* the invocations whose batch settled since the last start, in order
    cycles,     \* number of fetchAll invocations so far
    view        \* the derived snapshot of the latest render (useMemo)

vars == <<config, bal, priceUSD, refreshing, mounted, inv, settled, cycles, view>>

-----------------------------------------------------------------------------
(* Bounds *)

\* fetchAll invocations in one behaviour
MaxCycles == 2
\* price reads return 1..MaxPrice
MaxPrice == 1
\* amounts and constants of the derivation-only specification are 0..MaxAmt
MaxAmt == 3

-----------------------------------------------------------------------------
(* Constants *)

\* "35921361.0640907" TRUST, in units of 1000 TRUST
ALLOCATED_AIRDROP == 35921
\* "18180720.53204535" TRUST, in units of 1000 TRUST
CLAIMABLE_FIRST_3 == 18180

Cells == {"hub", "bonded", "vault", "locker"}
Slots == {1, 2}
Msgs == {"e1", "e2"}
NoPrice == "No price"

\* what a balance read may return: nothing held, or the whole allocation; two
\* values tell the results of two invocations apart
ReadVals == {0, ALLOCATED_AIRDROP}
PriceVals == 1..MaxPrice

-----------------------------------------------------------------------------
(* LoadState<T> = { loading: boolean; error?: string; data?: T } *)

\* an absent data field
NoData == -1
\* an absent error field
NoError == ""

Pending == [loading |-> TRUE, error |-> NoError, data |-> NoData]
Ok(v) == [loading |-> FALSE, error |-> NoError, data |-> v]
Failed(m) == [loading |-> FALSE, error |-> m, data |-> NoData]

Succeeded(s) == ~s.loading /\ s.data # NoData
IsFailed(s) == ~s.loading /\ s.error # NoError

\* s.data ?? 0n
DataOrZero(s) == IF s.data = NoData THEN 0 ELSE s.data

hubBal == bal.hub
bondedBal == bal.bonded
vaultBal == bal.vault
lockerBal == bal.locker

-----------------------------------------------------------------------------
(* Floats: a finite rational n/d (d > 0), NaN, or an infinity *)

Fin(n, d) == [k |-> "fin", n |-> n, d |-> d]
NaN == [k |-> "nan", n |-> 0, d |-> 1]
Inf == [k |-> "inf", n |-> 1, d |-> 1]

isFinite(x) == x.k = "fin"

\* Number(toUnits(x)): the amount as a float; it is 0 exactly when x is 0
FloatOf(x) == Fin(x, 1)

\* x > 0 on floats (false for NaN)
FGt0(x) == \/ x.k = "inf"
           \/ x.k = "fin" /\ x.n > 0

\* a / b on non-negative floats
FDiv(a, b) ==
    IF a.k = "nan" \/ b.k = "nan" THEN NaN
    ELSE IF b.k = "inf" THEN (IF a.k = "inf" THEN NaN ELSE Fin(0, 1))
    ELSE IF a.k = "inf" THEN Inf
    ELSE IF b.n = 0 THEN (IF a.n = 0 THEN NaN ELSE Inf)
    ELSE Fin(a.n * b.d, a.d * b.n)

\* a * b on non-negative floats
FMul(a, b) ==
    IF a.k = "nan" \/ b.k = "nan" THEN NaN
    ELSE IF a.k = "inf" \/ b.k = "inf"
         THEN (IF (a.k = "fin" /\ a.n = 0) \/ (b.k = "fin" /\ b.n = 0) THEN NaN ELSE Inf)
    ELSE Fin(a.n * b.n, a.d * b.d)

clamp01(x) ==
    IF isFinite(x)
    THEN (IF x.n < 0 THEN Fin(0, 1) ELSE IF x.n > x.d THEN Fin(1, 1) ELSE x)
    ELSE Fin(0, 1)

\* the rendered percentage: the dash, or hundredths of a percent, rounded
Dash == [dash |-> TRUE, bp |-> 0]
pct(n) ==
    IF ~isFinite(n) THEN Dash
    ELSE [dash |-> FALSE, bp |-> (2 * 10000 * n.n + n.d) \div (2 * n.d)]

-----------------------------------------------------------------------------
(* The derivation (useMemo) *)

\* the difference without its floor at 0
totalClaimed_unclamped(allocated, vault, locker) == allocated - (vault + locker)

totalClaimed(allocated, vault, locker) ==
    IF allocated > vault + locker THEN allocated - (vault + locker) ELSE 0

bridgedToBase(allocated, hub) ==
    IF allocated > hub THEN allocated - hub ELSE 0

left3(claimable3, claimed) ==
    IF claimable3 > claimed THEN claimable3 - claimed ELSE 0

leftTotal(allocated, claimed) ==
    IF allocated > claimed THEN allocated - claimed ELSE 0

claimed3(claimed, claimable3) ==
    IF claimed > claimable3 THEN claimable3 ELSE claimed

ratioBondedOfClaimed(claimedF, bondedF) ==
    IF FGt0(claimedF) THEN FDiv(bondedF, claimedF) ELSE NaN

\* the percentage falling back to 0 on a zero denominator
pctClaimed3_zero(claimable3F, claimed3F) ==
    IF FGt0(claimable3F) THEN FDiv(claimed3F, claimable3F) ELSE Fin(0, 1)

pctClaimed3(claimable3F, claimed3F) ==
    IF FGt0(claimable3F) THEN FDiv(claimed3F, claimable3F) ELSE NaN

pctClaimedAll(allocatedF, claimedF) ==
    IF FGt0(allocatedF) THEN FDiv(claimedF, allocatedF) ELSE NaN

pBridge(claimed3F, bridgedF) ==
    clamp01(IF FGt0(claimed3F) THEN FDiv(bridgedF, claimed3F) ELSE Fin(0, 1))

derived(cfg, b) ==
    LET allocated == cfg.ALLOCATED_AIRDROP
        claimable3 == cfg.CLAIMABLE_FIRST_3
        hub == DataOrZero(b.hub)
        bonded == DataOrZero(b.bonded)
        vault == DataOrZero(b.vault)
        locker == DataOrZero(b.locker)
        claimed == totalClaimed(allocated, vault, locker)
        bridged == bridgedToBase(allocated, hub)
        l3 == left3(claimable3, claimed)
        lt == leftTotal(allocated, claimed)
        claimedF == FloatOf(claimed)
        bondedF == FloatOf(bonded)
        bridgedF == FloatOf(bridged)
        left3F == FloatOf(l3)
        claimable3F == FloatOf(claimable3)
        allocatedF == FloatOf(allocated)
        claimed3F == FloatOf(claimed3(claimed, claimable3))
        extraSell == FMul(left3F, pBridge(claimed3F, bridgedF))
    IN  [allocated |-> allocated,
         claimable3 |-> claimable3,
         hub |-> hub,
         bonded |-> bonded,
         vault |-> vault,
         locker |-> locker,
         totalClaimed |-> claimed,
         bridgedToBase |-> bridged,
         left3 |-> l3,
         leftTotal |-> lt,
         claimedF |-> claimedF,
         bondedF |-> bondedF,
         bridgedF |-> bridgedF,
         left3F |-> left3F,
         claimed3F |-> claimed3F,
         claimable3F |-> claimable3F,
         allocatedF |-> allocatedF,
         ratioBondedOfClaimed |-> ratioBondedOfClaimed(claimedF, bondedF),
         pctClaimed3 |-> pctClaimed3(claimable3F, claimed3F),
         pctClaimedAll |-> pctClaimedAll(allocatedF, claimedF),
         extraSell |-> extraSell,
         extraSell15 |-> FMul(extraSell, Fin(3, 2)),
         extraSell2 |-> FMul(extraSell, Fin(2, 1))]

-----------------------------------------------------------------------------
(* The button *)

anyLoading ==
    \/ hubBal.loading
    \/ bondedBal.loading
    \/ vaultBal.loading
    \/ lockerBal.loading
    \/ priceUSD.loading

\* a button that is never disabled
disabled_never == FALSE

disabled == anyLoading \/ refreshing

-----------------------------------------------------------------------------------------------------------------------------------------------------
(* fetchAll invocations and their reads *)

Out == [st |-> "out", v |-> 0, m |-> NoError]
Resolved(v) == [st |-> "ok", v |-> v, m |-> NoError]
Rejected(m) == [st |-> "err", v |-> 0, m |-> m]

\* an invocation: where it stands, what its four balance reads returned, and
\* whether it has issued its price read
Idle == [pc |-> "idle", reads |-> [c \in Cells |-> Out], priceIssued |-> FALSE]

InFlight(i) == inv[i].pc \in {"reading", "pricing"}
Free(i) == ~InFlight(i)
FreeSlot == CHOOSE i \in Slots : Free(i) /\ \A j \in Slots : Free(j) => i <= j

Init ==
    /\ config = [ALLOCATED_AIRDROP |-> ALLOCATED_AIRDROP,
                 CLAIMABLE_FIRST_3 |-> CLAIMABLE_FIRST_3]
    /\ bal = [c \in Cells |-> Pending]
    /\ priceUSD = Pending
    /\ refreshing = FALSE
    /\ mounted = FALSE
    /\ inv = [i \in Slots |-> Idle]
    /\ settled = <<>>
    /\ cycles = 0
    /\ view = derived(config, bal)

\* a start that resets the price cell too
fetchAllStart_resetPrice(i) ==
    /\ refreshing' = TRUE
    /\ bal' = [c \in Cells |-> Pending]
    /\ priceUSD' = Pending
    /\ inv' = [inv EXCEPT ![i] = [Idle EXCEPT !.pc = "reading"]]
    /\ settled' = <<>>
    /\ cycles' = cycles + 1
    /\ view' = derived(config, bal')
    /\ UNCHANGED config

\* fetchAll up to its first await: the flag, the four resets, the four reads
fetchAllStart(i) ==
    /\ refreshing' = TRUE
    /\ bal' = [c \in Cells |-> Pending]
    /\ inv' = [inv EXCEPT ![i] = [Idle EXCEPT !.pc = "reading"]]
    /\ settled' = <<>>
    /\ cycles' = cycles + 1
    /\ view' = derived(config, bal')
    /\ UNCHANGED <<config, priceUSD>>

\* useEffect(() => { fetchAll() }, [])
Mount ==
    /\ ~mounted
    /\ \E i \in Slots : Free(i)
    /\ mounted' = TRUE
    /\ fetchAllStart(FreeSlot)

\* <button onClick={fetchAll} disabled={anyLoading || refreshing}>
Click ==
    /\ ~disabled
    /\ cycles < MaxCycles
    /\ \E i \in Slots : Free(i)
    /\ fetchAllStart(FreeSlot)
    /\ UNCHANGED mounted

\* fetchAll called while an earlier invocation is outstanding
Reinvoke ==
    /\ mounted
    /\ cycles < MaxCycles
    /\ \E i \in Slots : InFlight(i)
    /\ \E i \in Slots : Free(i)
    /\ fetchAllStart(FreeSlot)
    /\ UNCHANGED mounted

\* the updater without its loading test
catchUpdate_always(s, msg) == Failed(msg)

\* (s) => (s.loading ? { loading: false, error: msg } : s)
catchUpdate(s, msg) == IF s.loading THEN Failed(msg) ELSE s

\* a balance read of invocation i resolves with v while Promise.all is pending
ReadResolve(i, c, v) ==
    /\ inv[i].pc = "reading"
    /\ inv[i].reads[c].st = "out"
    /\ LET r == [inv[i].reads EXCEPT ![c] = Resolved(v)] IN
       IF \A d \in Cells : r[d].st = "ok"
       THEN \* Promise.all resolves; the four cells are set; fetchPrice starts
            /\ bal' = [d \in Cells |-> Ok(r[d].v)]
            /\ priceUSD' = Pending
            /\ inv' = [inv EXCEPT ![i] = [pc |-> "pricing", reads |-> r,
                                          priceIssued |-> TRUE]]
            /\ settled' = Append(settled, i)
            /\ view' = derived(config, bal')
            /\ UNCHANGED <<config, refreshing, mounted, cycles>>
       ELSE \* Promise.all waits for the other reads
            /\ inv' = [inv EXCEPT ![i].reads = r]
            /\ UNCHANGED <<config, bal, priceUSD, refreshing, mounted, settled,
                           cycles, view>>

\* a balance read of invocation i rejects with message m: Promise.all rejects at
\* once, and fetchAll runs catch and finally.  Promise.all drops what the reads
\* still outstanding return later, so they are followed no further.
ReadReject(i, c, m) ==
    /\ inv[i].pc = "reading"
    /\ inv[i].reads[c].st = "out"
    /\ bal' = [d \in Cells |-> catchUpdate(bal[d], m)]
    /\ refreshing' = FALSE
    /\ inv' = [inv EXCEPT ![i].reads[c] = Rejected(m), ![i].pc = "done"]
    /\ settled' = Append(settled, i)
    /\ view' = derived(config, bal')
    /\ UNCHANGED <<config, priceUSD, mounted, cycles>>

\* the outcomes of fetchPrice: a number, no number, or a thrown error
PriceOutcomes ==
    {Ok(p) : p \in PriceVals} \cup {Failed(NoPrice)} \cup {Failed(m) : m \in Msgs}

\* the price read of invocation i settles; fetchAll runs its finally block
fetchPriceDone(i, s) ==
    /\ inv[i].pc = "pricing"
    /\ priceUSD' = s
    /\ refreshing' = FALSE
    /\ inv' = [inv EXCEPT ![i].pc = "done"]
    /\ view' = derived(config, bal)
    /\ UNCHANGED <<config, bal, mounted, settled, cycles>>

Settle ==
    \E i \in Slots :
        \/ \E c \in Cells, v \in ReadVals : ReadResolve(i, c, v)
        \/ \E c \in Cells, m \in Msgs : ReadReject(i, c, m)
        \/ \E s \in PriceOutcomes : fetchPriceDone(i, s)

Next == Mount \/ Click \/ Settle

Spec == Init /\ [][Next]_vars

NextOverlap == Mount \/ Click \/ Reinvoke \/ Settle

SpecOverlap == Init /\ [][NextOverlap]_vars

-----------------------------------------------------------------------------
(* The derivation alone, over every combination of cells and constants *)

Amounts == 0..MaxAmt
LoadStates == {Pending} \cup {Ok(v) : v \in Amounts} \cup {Failed(m) : m \in Msgs}

InitDerive ==
    /\ config \in [ALLOCATED_AIRDROP : Amounts, CLAIMABLE_FIRST_3 : Amounts]
    /\ bal = [c \in Cells |-> Pending]
    /\ priceUSD = Pending
    /\ refreshing = FALSE
    /\ mounted = FALSE
    /\ inv = [i \in Slots |-> Idle]
    /\ settled = <<>>
    /\ cycles = 0
    /\ view = derived(config, bal)

\* a cell's setter is called with s, and the render recomputes the snapshot
SetCell(c, s) ==
    /\ bal' = [bal EXCEPT ![c] = s]
    /\ view' = derived(config, bal')
    /\ UNCHANGED <<config, priceUSD, refreshing, mounted, inv, settled, cycles>>

NextDerive == \E c \in Cells, s \in LoadStates : SetCell(c, s)

SpecDerive == InitDerive /\ [][NextDerive]_vars

-----------------------------------------------------------------------------
(* Helpers of the properties *)

Max(a, b) == IF a >= b THEN a ELSE b
Min(a, b) == IF a <= b THEN a ELSE b

\* the amount a cell stands for: its value once succeeded, else 0
AmountOf(s) == IF Succeeded(s) THEN s.data ELSE 0

NoneInFlight == \A i \in Slots : ~InFlight(i)
NoReadOutstanding ==
    \A i \in Slots : inv[i].pc # "idle" => \A c \in Cells : inv[i].reads[c].st # "out"

BatchOk(i) == \A c \in Cells : inv[i].reads[c].st = "ok"
RejectedReads(i) == {c \in Cells : inv[i].reads[c].st = "err"}
ResolvedReads(i) == {c \in Cells : inv[i].reads[c].st = "ok"}

\* what invocation i's batch has to say about cell c
Outcome(i, c) ==
    IF BatchOk(i) THEN Ok(inv[i].reads[c].v)
    ELSE Failed(inv[i].reads[CHOOSE d \in RejectedReads(i) : TRUE].m)

-----------------------------------------------------------------------------
(* C1 *)

\* C1: when exactly one of the four balance reads of a cycle rejects and the
\* other three resolve, the three cells whose reads resolved are succeeded with
\* the values read, and only the cell whose read rejected is failed with the
\* rejection's message.
C1_PartialFailureIsolation ==
    \A i \in Slots :
        (/\ inv[i].pc = "done"
         /\ Cardinality(RejectedReads(i)) = 1
         /\ Cardinality(ResolvedReads(i)) = 3)
        => \A c \in Cells :
              bal[c] = IF inv[i].reads[c].st = "ok"
                       THEN Ok(inv[i].reads[c].v)
                       ELSE Failed(inv[i].reads[c].m)

-----------------------------------------------------------------------------
(* C2 *)

\* C2: for every combination of the four cells (a pending or failed cell
\* counting as 0) and the two constants, the five derived amounts are the
\* clamped differences and the minimum the formulas give; none is negative and
\* ClaimedInFirstPhases never exceeds ClaimableFirstPhases.
C2_DerivedAmounts ==
    LET A == config.ALLOCATED_AIRDROP
        C == config.CLAIMABLE_FIRST_3
        TC == Max(0, A - (AmountOf(vaultBal) + AmountOf(lockerBal)))
    IN  /\ view.totalClaimed = TC
        /\ view.bridgedToBase = Max(0, A - AmountOf(hubBal))
        /\ view.claimed3F = FloatOf(Min(TC, C))
        /\ view.left3 = Max(0, C - TC)
        /\ view.leftTotal = Max(0, A - TC)
        /\ view.totalClaimed >= 0
        /\ view.bridgedToBase >= 0
        /\ view.left3 >= 0
        /\ view.leftTotal >= 0
        /\ isFinite(view.claimed3F)
        /\ view.claimed3F.d = 1
        /\ view.claimed3F.n >= 0
        /\ view.claimed3F.n <= C

\* the clamp acts (vault + locker exceed the allocation) while one cell is
\* pending and another failed
C2_Witness ==
    /\ AmountOf(vaultBal) + AmountOf(lockerBal) > config.ALLOCATED_AIRDROP
    /\ config.ALLOCATED_AIRDROP > config.CLAIMABLE_FIRST_3
    /\ view.totalClaimed = 0
    /\ view.left3 = config.CLAIMABLE_FIRST_3
    /\ hubBal.loading
    /\ IsFailed(bondedBal)

-----------------------------------------------------------------------------
(* C3 *)

\* C3: whenever the Bonded cell is pending or failed, BondedOverClaimed is the
\* undefined value and renders as the dash; and when the bonded read failed
\* while the vault, locker and hub reads succeeded, TotalClaimed, LeftTotal and
\* PercentClaimedAll are computed from the vault, locker and hub balances read.
C3_UndefinedRatioOnFailedInput ==
    /\ ~Succeeded(bondedBal) =>
          /\ view.ratioBondedOfClaimed = NaN
          /\ pct(view.ratioBondedOfClaimed) = Dash
    /\ \A i \in Slots :
          (/\ inv[i].pc = "done"
           /\ RejectedReads(i) = {"bonded"}
           /\ ResolvedReads(i) = {"hub", "vault", "locker"})
          => LET A == config.ALLOCATED_AIRDROP
                 TC == Max(0, A - (inv[i].reads.vault.v + inv[i].reads.locker.v))
             IN  /\ view.hub = inv[i].reads.hub.v
                 /\ view.totalClaimed = TC
                 /\ view.leftTotal = Max(0, A - TC)
                 /\ view.pctClaimedAll = pctClaimedAll(FloatOf(A), FloatOf(TC))

-----------------------------------------------------------------------------
(* C4 *)

-----------------------------------------------------------------------------
(* C5 *)

\* C5: the price read is issued once all four balance reads of the cycle have
\* settled, whether the batch resolved or rejected, and never while one of them
\* is outstanding.
C5_PriceAfterJoin ==
    \A i \in Slots :
        /\ (inv[i].pc # "idle" /\ \A c \in Cells : inv[i].reads[c].st # "out")
               => inv[i].priceIssued
        /\ inv[i].priceIssued => \A c \in Cells : inv[i].reads[c].st # "out"

-----------------------------------------------------------------------------
(* C6 *)

\* C6: once every read issued has returned and the cycle has finished, each of
\* the five cells is settled: none is left pending.
C6_FinishedCycleSettlesAllCells ==
    (cycles > 0 /\ NoneInFlight /\ NoReadOutstanding) =>
        /\ \A c \in Cells : Succeeded(bal[c]) \/ IsFailed(bal[c])
        /\ Succeeded(priceUSD) \/ IsFailed(priceUSD)

-----------------------------------------------------------------------------
(* C7 *)

\* the invocations whose batch resolved, by their place in the order of settling
ResolvedAt == {k \in 1..Len(settled) : BatchOk(settled[k])}

\* C7 as claimed: once the invocations have finished, each balance cell holds
\* the outcome of the batch that settled last, a success or a failure alike.
C7_LastSettledWins ==
    (NoneInFlight /\ settled # <<>>) =>
        \A c \in Cells : bal[c] = Outcome(settled[Len(settled)], c)

\* C7 as amended: once the invocations have finished, each balance cell holds
\* the values of the batch that resolved last since the newest start; if none
\* resolved, it holds the message of the batch that rejected first.
C7_LastResolvedElseFirstRejected ==
    (NoneInFlight /\ settled # <<>>) =>
        LET w == IF ResolvedAt # {}
                 THEN settled[CHOOSE k \in ResolvedAt : \A j \in ResolvedAt : j <= k]
                 ELSE settled[1]
        IN  \A c \in Cells : bal[c] = Outcome(w, c)

\* two overlapping invocations have finished, the batch that settled last
\* rejected, and the cells hold the values of the one that resolved before it
C7_Witness ==
    /\ NoneInFlight
    /\ Len(settled) = 2
    /\ BatchOk(settled[1])
    /\ ~BatchOk(settled[2])
    /\ \A c \in Cells : bal[c] = Ok(inv[settled[1]].reads[c].v)

-----------------------------------------------------------------------------
(* C8 *)

ViewFields ==
    {"allocated", "claimable3", "hub", "bonded", "vault", "locker", "totalClaimed",
     "bridgedToBase", "left3", "leftTotal", "claimedF", "bondedF", "bridgedF",
     "left3F", "claimed3F", "claimable3F", "allocatedF", "ratioBondedOfClaimed",
     "pctClaimed3", "pctClaimedAll", "extraSell", "extraSell15", "extraSell2"}

\* C8: a ratio whose denominator is zero is the undefined marker and renders
\* as the dash, never as 0: PercentClaimedFirstPhases when ClaimableFirstPhases
\* is 0, PercentClaimedAll when TotalAllocated is 0, BondedOverClaimed when
\* TotalClaimed is 0, which is when vault + locker reach the allocation; the
\* derivation still produces every field.
C8_ZeroDenominatorIsUndefined ==
    /\ DOMAIN view = ViewFields
    /\ config.CLAIMABLE_FIRST_3 = 0 =>
          /\ view.pctClaimed3 = NaN
          /\ pct(view.pctClaimed3) = Dash
    /\ config.ALLOCATED_AIRDROP = 0 =>
          /\ view.pctClaimedAll = NaN
          /\ pct(view.pctClaimedAll) = Dash
    /\ view.totalClaimed = 0 =>
          /\ view.ratioBondedOfClaimed = NaN
          /\ pct(view.ratioBondedOfClaimed) = Dash
    /\ view.totalClaimed = 0
          <=> AmountOf(vaultBal) + AmountOf(lockerBal) >= config.ALLOCATED_AIRDROP

\* ClaimableFirstPhases is 0 with a positive allocation partly claimed: the
\* first-phases percentage is undefined while the other ratios are numbers
C8_Witness ==
    /\ config.CLAIMABLE_FIRST_3 = 0
    /\ config.ALLOCATED_AIRDROP > 0
    /\ Succeeded(bondedBal)
    /\ view.totalClaimed > 0
    /\ view.pctClaimed3 = NaN
    /\ isFinite(view.pctClaimedAll)
    /\ isFinite(view.ratioBondedOfClaimed)

-----------------------------------------------------------------------------
(* C9 *)

\* C9: once a cycle has finished and every read issued has returned, the
\* manual trigger is enabled again.
C9_RefreshEnabledAgain ==
    (mounted /\ NoneInFlight /\ NoReadOutstanding) => ~disabled

-----------------------------------------------------------------------------
(* C10 *)

\* C10: with the mount effect and the button as the only triggers, at most one
\* fetchAll invocation is in flight, and the refreshing flag is set from its
\* start to its finally block.
C10_NoOverlap ==
    /\ Cardinality({i \in Slots : InFlight(i)}) <= 1
    /\ refreshing <=> \E i \in Slots : InFlight(i)

\* a cycle started by the button is in flight
C10_Witness ==
    /\ cycles = 2
    /\ \E i \in Slots : InFlight(i)
    /\ refreshing

====
